---- MODULE Spec2Model ----
(***************************************************************************)
(* State-machine model of the spotificity command line client:            *)
(* the artist cache (CACHED_ARTIST_LIST, IS_CACHE_EMPTY), the three        *)
(* operations list_artists, add_artist and remove_artist, the search and   *)
(* confirmation dialogue of fetch_artist_id, and the menu loop.            *)
(* One action is one step of the program between two suspension points     *)
(* (a line of user input, or the response of a Lambda invocation).         *)
(***************************************************************************)
EXTENDS Integers, Sequences, FiniteSets, TLC

\* ------------------------------------------------------------------ bounds
NumIds == 2
MaxCandidates == 2
MaxCache == 2

\* ------------------------------------------------------------ vocabularies
AllIds == <<"id1", "id2", "id3", "id4">>
Ids == {AllIds[i] : i \in 1..NumIds}
\* names are only printed and compared for equality: two of them tell an
\* artist from the same artist under another name
Names == {"A", "B"}

\* {'artist_id': ..., 'artist_name': ...}
Artist == [artist_id : Ids, artist_name : Names]
NoArtist == [artist_id |-> "", artist_name |-> ""]

yes_choices == {"y", "yes", "yeah", "yup", "yep", "yea", "ya", "yah"}
no_choices == {"n", "no", "nope", "nah", "naw", "na"}
go_back_choices == {"b", "back"}

\* str(k) for the small non-negative integers the prompts use
DecimalDigits == <<"0", "1", "2", "3", "4", "5", "6", "7", "8", "9">>
Str(k) == DecimalDigits[k + 1]

\* str.lower() on the input vocabulary
Lower(s) ==
    CASE s = "YES" -> "yes"
      [] s = "Back" -> "back"
      [] s = "Q" -> "q"
      [] OTHER -> s

\* int(s): the parsed integer, or ValueError
ValueError == -1000
ParseInt(s) ==
    CASE s = " 2" -> 2
      [] \E k \in 0..9 : s = Str(k) -> CHOOSE k \in 0..9 : s = Str(k)
      [] OTHER -> ValueError

\* the lines a user may type at each prompt: accepted ones in several
\* spellings, and rejected ones
MenuInputs == {"1", "2", "3", "4", "0", "x"}
ConfirmInputs == {"y", "YES", "no", "b", "x"}
SelectInputs == {Str(k) : k \in 0..(MaxCandidates + 1)} \cup {"b", "Back", " 2", "x"}
RemoveInputs == {Str(k) : k \in 0..(MaxCache + 1)} \cup {" 2", "x"}
\* the free text typed as a search query; the client only forwards it
ArtistQueries == {"some artist"}
\* the lines typed at "press ENTER to go back to main menu (or q to quit)"
ContinueInputs == {"", "q", "Q", "x"}

\* ------------------------------------------------------- sequence helpers
Range(s) == {s[i] : i \in DOMAIN s}
IdsOf(s) == {s[i].artist_id : i \in DOMAIN s}
NamesOf(s) == [i \in DOMAIN s |-> s[i].artist_name]
DistinctIds(s) == \A i, j \in DOMAIN s : s[i].artist_id = s[j].artist_id => i = j
SeqsUpTo(S, n) == UNION {[1..k -> S] : k \in 0..n}
\* list.pop(i - 1) for a 1-based i
Pop(s, i) == [k \in 1..(Len(s) - 1) |-> IF k < i THEN s[k] ELSE s[k + 1]]

\* artistSearchResultsList of one search response: ranked, one entry per id
CandidateLists == {s \in SeqsUpTo(Artist, MaxCandidates) : DistinctIds(s)}

\* the monitored-artists table, keyed by artist_id
Tables == {t \in SUBSET Artist : \A a, b \in t : a.artist_id = b.artist_id => a = b}
\* the orders in which a scan may return the table
ScanOrders(t) == {s \in SeqsUpTo(t, Cardinality(t)) : Len(s) = Cardinality(t) /\ Range(s) = t}

VARIABLES
    CACHED_ARTIST_LIST,   \* actions.py:14
    IS_CACHE_EMPTY,       \* actions.py:15
    pc,                   \* where the process waits
    caller,               \* the operation list_artists returns to
    candidates,           \* artistSearchResultsList of the search in progress
    artist,               \* the artist fetch_artist_id returned to add_artist
    choice,               \* the validated selection of remove_artist
    user_input,           \* the last line read by input()
    output,               \* the messages printed by the last step
    error,                \* the exception that ended the process, if any
    table,                \* the backend's monitored-artists table
    fetched,              \* a FetchArtistsHandler response was stored in the cache
    response,             \* what the last step received from a Lambda, if anything
    invoked,              \* the calls main made for the current menu selection
    interrupted           \* a KeyboardInterrupt was delivered

vars == <<CACHED_ARTIST_LIST, IS_CACHE_EMPTY, pc, caller, candidates, artist,
          choice, user_input, output, error, table, fetched, response, invoked,
          interrupted>>

cacheVars == <<CACHED_ARTIST_LIST, IS_CACHE_EMPTY>>

Init ==
    /\ CACHED_ARTIST_LIST = <<>>
    /\ IS_CACHE_EMPTY = FALSE
    /\ pc = "main_menu"
    /\ caller = "none"
    /\ candidates = <<>>
    /\ artist = NoArtist
    /\ choice = 0
    /\ user_input = ""
    /\ output = <<"title">>
    /\ error = "none"
    /\ table \in Tables
    /\ fetched = FALSE
    /\ response = "none"
    /\ invoked = <<>>
    /\ interrupted = FALSE

\* --------------------------------------------------------------- outcomes
\* what a Lambda invocation can come back with
TransportErrors == {"ClientError", "Exception"}
ListOutcomes == TransportErrors \cup {"errorMessage", "payload_error", "ok"}
SearchOutcomes == TransportErrors \cup {"errorMessage", "payload_error", "ok"}
WriteOutcomes == TransportErrors \cup {"errorMessage", "200", "500"}

\* the orders in which the names of the table may be listed
NameOrders(t) == {NamesOf(s) : s \in ScanOrders(t)}

\* FetchArtistsHandler: 204 for an empty table, else the names of the items
\* and the items, two lists of the response
FetchArtistsHandler(t, order, names) ==
    IF t = {} THEN [status_code |-> 204, current_artists_names |-> <<>>,
                    current_artists_with_id |-> <<>>]
    ELSE [status_code |-> 200, current_artists_names |-> names,
          current_artists_with_id |-> order]

Str204(status_code) == IF status_code = 204 THEN "204" ELSE "200"

\* AddArtistsHandler: put_item keyed by artist_id
AddArtistsHandler(t, a) == {b \in t : b.artist_id # a.artist_id} \cup {a}

\* RemoveArtistsHandler: delete_item keyed by artist_id
RemoveArtistsHandler(t, a) == {b \in t : b.artist_id # a.artist_id}

\* json.dumps with the two values under each other's key
json_dumps_SwapsFields(a) ==
    <<<<"artist_id", a.artist_name>>, <<"artist_name", a.artist_id>>>>

\* add_artist lines 254-257, remove_artist lines 312-315: the request
\* payload, a JSON object written as its key/value pairs
json_dumps(a) ==
    <<<<"artist_id", a.artist_id>>, <<"artist_name", a.artist_name>>>>

\* the handler's reading of the request payload: each field by its key
json_loads(payload) ==
    LET field(key) == payload[CHOOSE i \in DOMAIN payload : payload[i][1] = key][2]
    IN  [artist_id |-> field("artist_id"), artist_name |-> field("artist_name")]

\* ------------------------------------------------------------ the program
\* an exception nobody catches ends the process
Raise(e) ==
    /\ pc' = "crashed"
    /\ error' = e

\* quit: print and sys.exit()
quit ==
    /\ pc' = "exited"
    /\ output' = <<"quitting">>

\* menu_loop_prompt that ends the process when continue_prompt is False
menu_loop_prompt_ExitsWhenClear(continue_prompt, next) ==
    pc' = IF continue_prompt THEN "continue_prompt" ELSE "exited"

\* menu_loop_prompt(continue_prompt): with the flag the process waits for
\* ENTER or q; without it the caller goes on
menu_loop_prompt(continue_prompt, next) ==
    pc' = IF continue_prompt THEN "continue_prompt" ELSE next

\* where control is after list_artists returned to operation c
AfterList(c) ==
    CASE c = "list" -> "continue_prompt"
      [] c = "add" -> "add_query"
      [] c = "remove" -> "remove_prompt"

\* list_artists up to its first suspension point, called on behalf of c
\* after the messages in printed: serve the listing from the cache, or invoke
\* FetchArtistsHandler
list_artists(c, printed) ==
    /\ caller' = c
    /\ IF Len(CACHED_ARTIST_LIST) > 0 \/ IS_CACHE_EMPTY
       THEN /\ output' = printed \o (IF Len(CACHED_ARTIST_LIST) > 0
                                      THEN <<"listing">> \o NamesOf(CACHED_ARTIST_LIST)
                                      ELSE <<"no_artists">>)
            /\ menu_loop_prompt(c = "list", AfterList(c))
       ELSE /\ output' = printed
            /\ pc' = "list_invoke"
    /\ UNCHANGED <<CACHED_ARTIST_LIST, IS_CACHE_EMPTY, fetched>>

\* ListResponse with line 112 left out: the 204 branch does not set the flag
ListResponse_FlagNotSet(r, order, names) ==
    /\ pc = "list_invoke"
    /\ IF r \in TransportErrors
       THEN /\ Raise(r)
            /\ output' = <<"error">>
            /\ UNCHANGED <<CACHED_ARTIST_LIST, IS_CACHE_EMPTY, fetched>>
       ELSE IF r = "errorMessage"
       THEN /\ Raise("ExceptionDuringLambdaExecution")
            /\ UNCHANGED <<CACHED_ARTIST_LIST, IS_CACHE_EMPTY, fetched, output>>
       ELSE IF r = "payload_error"
       THEN /\ Raise("FailedToRetrieveMonitoredArtists")
            /\ UNCHANGED <<CACHED_ARTIST_LIST, IS_CACHE_EMPTY, fetched, output>>
       ELSE LET returned_payload == FetchArtistsHandler(table, order, names) IN
            /\ IF returned_payload.status_code = 204
               THEN /\ output' = <<"no_artists">>
                    /\ CACHED_ARTIST_LIST' = <<>>
                    /\ UNCHANGED IS_CACHE_EMPTY
               ELSE /\ output' = <<"listing">> \o returned_payload.current_artists_names
                    /\ CACHED_ARTIST_LIST' = returned_payload.current_artists_with_id
                    /\ IS_CACHE_EMPTY' = FALSE
            /\ fetched' = TRUE
            /\ menu_loop_prompt(caller = "list", AfterList(caller))
            /\ UNCHANGED error
    /\ response' = IF r = "ok" THEN Str204(FetchArtistsHandler(table, order, names).status_code)
                   ELSE r
    /\ UNCHANGED <<caller, candidates, artist, choice, user_input, table, invoked,
                   interrupted>>

\* list_artists lines 80-125: the response of FetchArtistsHandler arrives
ListResponse(r, order, names) ==
    /\ pc = "list_invoke"
    /\ IF r \in TransportErrors
       THEN /\ Raise(r)
            /\ output' = <<"error">>
            /\ UNCHANGED <<CACHED_ARTIST_LIST, IS_CACHE_EMPTY, fetched>>
       ELSE IF r = "errorMessage"
       THEN /\ Raise("ExceptionDuringLambdaExecution")
            /\ UNCHANGED <<CACHED_ARTIST_LIST, IS_CACHE_EMPTY, fetched, output>>
       ELSE IF r = "payload_error"
       THEN /\ Raise("FailedToRetrieveMonitoredArtists")
            /\ UNCHANGED <<CACHED_ARTIST_LIST, IS_CACHE_EMPTY, fetched, output>>
       ELSE LET returned_payload == FetchArtistsHandler(table, order, names) IN
            /\ IF returned_payload.status_code = 204
               THEN /\ output' = <<"no_artists">>
                    /\ CACHED_ARTIST_LIST' = <<>>
                    /\ IS_CACHE_EMPTY' = TRUE
               ELSE /\ output' = <<"listing">> \o returned_payload.current_artists_names
                    /\ CACHED_ARTIST_LIST' = returned_payload.current_artists_with_id
                    /\ IS_CACHE_EMPTY' = FALSE
            /\ fetched' = TRUE
            /\ menu_loop_prompt(caller = "list", AfterList(caller))
            /\ UNCHANGED error
    /\ response' = IF r = "ok" THEN Str204(FetchArtistsHandler(table, order, names).status_code)
                   ELSE r
    /\ UNCHANGED <<caller, candidates, artist, choice, user_input, table, invoked,
                   interrupted>>

\* main_menu lines 29-54: the menu registry, in the order of the dict
MenuKeys == <<"1", "2", "3", "4">>
menu_choices ==
    [k \in Range(MenuKeys) |->
        CASE k = "1" -> [function |-> "list_artists", token_needed |-> FALSE,
                         continue_prompt |-> TRUE]
          [] k = "2" -> [function |-> "add_artist", token_needed |-> TRUE,
                         continue_prompt |-> TRUE]
          [] k = "3" -> [function |-> "remove_artist", token_needed |-> FALSE,
                         continue_prompt |-> TRUE]
          [] k = "4" -> [function |-> "quit", token_needed |-> FALSE,
                         continue_prompt |-> FALSE]]

\* Input.validate: a selection is accepted iff it is one of the valid choices
InputValidate(in, valid_choices) == in \in valid_choices

\* Dispatch with the elif of lines 92 and 96 written as if
RECURSIVE Dispatch_IfNotElif(_, _)
Dispatch_IfNotElif(user_choice, i) ==
    IF i > Len(MenuKeys) THEN <<>>
    ELSE LET menu_item_num == MenuKeys[i]
             menu_item_value == menu_choices[menu_item_num]
             call(tok, cont) == <<[function |-> menu_item_value.function,
                                   token |-> tok, continue_prompt |-> cont]>>
         IN  (IF user_choice = menu_item_num /\ menu_item_value.token_needed
                 /\ menu_item_value.continue_prompt
              THEN call(TRUE, TRUE) ELSE <<>>)
             \o (IF user_choice = menu_item_num /\ menu_item_value.continue_prompt
                 THEN call(FALSE, TRUE) ELSE <<>>)
             \o (IF user_choice = menu_item_num THEN call(FALSE, FALSE) ELSE <<>>)
             \o Dispatch_IfNotElif(user_choice, i + 1)

\* main lines 86-98: the calls the dispatch loop makes for user_choice, each
\* with the function called, whether access_token is passed and whether
\* continue_prompt=True is passed
RECURSIVE Dispatch(_, _)
Dispatch(user_choice, i) ==
    IF i > Len(MenuKeys) THEN <<>>
    ELSE LET menu_item_num == MenuKeys[i]
             menu_item_value == menu_choices[menu_item_num]
             call(tok, cont) == <<[function |-> menu_item_value.function,
                                   token |-> tok, continue_prompt |-> cont]>>
         IN  (IF user_choice = menu_item_num /\ menu_item_value.token_needed
                 /\ menu_item_value.continue_prompt
              THEN call(TRUE, TRUE)
              ELSE IF user_choice = menu_item_num /\ menu_item_value.continue_prompt
              THEN call(FALSE, TRUE)
              ELSE IF user_choice = menu_item_num
              THEN call(FALSE, FALSE)
              ELSE <<>>) \o Dispatch(user_choice, i + 1)

\* the operation behind a function of the registry
OperationOf(function) ==
    CASE function = "list_artists" -> "list"
      [] function = "add_artist" -> "add"
      [] function = "remove_artist" -> "remove"
      [] OTHER -> "none"

\* main_menu and the dispatch of main: one validated selection, one operation
main_menu(in) ==
    /\ pc = "main_menu"
    /\ user_input' = in
    /\ IF ~InputValidate(in, Range(MenuKeys))
       THEN /\ output' = <<"invalid_selection">>
            /\ UNCHANGED <<CACHED_ARTIST_LIST, IS_CACHE_EMPTY, fetched, caller, pc,
                           invoked>>
       ELSE LET calls == Dispatch(in, 1) IN
            /\ invoked' = calls
            /\ IF calls[1].function = "quit"
               THEN /\ quit
                    /\ UNCHANGED <<CACHED_ARTIST_LIST, IS_CACHE_EMPTY, fetched, caller>>
               ELSE list_artists(OperationOf(calls[1].function), <<>>)
    /\ response' = "none"
    /\ UNCHANGED <<candidates, artist, choice, table, error, interrupted>>

\* add_artist line 234 and fetch_artist_id lines 136-147: the query is read
\* and GetArtist-IDHandler is invoked
AddQuery(in) ==
    /\ pc = "add_query"
    /\ user_input' = in
    /\ pc' = "search_invoke"
    /\ artist' = NoArtist
    /\ output' = <<>>
    /\ response' = "none"
    /\ UNCHANGED <<CACHED_ARTIST_LIST, IS_CACHE_EMPTY, caller, candidates, choice,
                   error, table, fetched, invoked, interrupted>>

\* add_artist lines 241-265 for the value fetch_artist_id returned; the
\* session adds a new artist only while the cache has fewer than MaxCache
\* entries
AddResult(result) ==
    IF result = NoArtist
    THEN /\ list_artists("add", <<>>)
         /\ artist' = NoArtist
         /\ UNCHANGED error
    ELSE IF \E i \in DOMAIN CACHED_ARTIST_LIST : CACHED_ARTIST_LIST[i] = result
    THEN /\ list_artists("add", <<"already_monitoring">>)
         /\ artist' = result
         /\ UNCHANGED error
    ELSE /\ Len(CACHED_ARTIST_LIST) < MaxCache
         /\ artist' = result
         /\ pc' = "add_invoke"
         /\ output' = <<>>
         /\ UNCHANGED <<CACHED_ARTIST_LIST, IS_CACHE_EMPTY, fetched, caller, error>>

\* SearchResponse that returns a lone candidate without asking
SearchResponse_ReturnsLoneCandidate(r, results) ==
    /\ pc = "search_invoke"
    /\ IF r \in TransportErrors
       THEN /\ Raise(r) /\ output' = <<"error">>
            /\ UNCHANGED <<candidates, CACHED_ARTIST_LIST, IS_CACHE_EMPTY, caller,
                           artist, fetched>>
       ELSE IF r = "errorMessage"
       THEN /\ Raise("ExceptionDuringLambdaExecution")
            /\ UNCHANGED <<candidates, output, CACHED_ARTIST_LIST, IS_CACHE_EMPTY,
                           caller, artist, fetched>>
       ELSE IF r = "payload_error"
       THEN /\ Raise("FailedToRetrieveListOfMatchesWithIDs")
            /\ UNCHANGED <<candidates, output, CACHED_ARTIST_LIST, IS_CACHE_EMPTY,
                           caller, artist, fetched>>
       ELSE IF Len(results) = 0
       THEN /\ Raise("IndexError")
            /\ UNCHANGED <<candidates, output, CACHED_ARTIST_LIST, IS_CACHE_EMPTY,
                           caller, artist, fetched>>
       ELSE IF Len(results) = 1
       THEN /\ AddResult(results[1])
            /\ UNCHANGED candidates
       ELSE /\ candidates' = results
            /\ pc' = "confirm_prompt"
            /\ output' = <<"is_this_the_artist", results[1].artist_name>>
            /\ UNCHANGED <<error, CACHED_ARTIST_LIST, IS_CACHE_EMPTY, caller,
                           artist, fetched>>
    /\ response' = r
    /\ UNCHANGED <<choice, user_input, table, invoked, interrupted>>

\* fetch_artist_id lines 148-182: the search response arrives
SearchResponse(r, results) ==
    /\ pc = "search_invoke"
    /\ IF r \in TransportErrors
       THEN Raise(r) /\ output' = <<"error">> /\ UNCHANGED candidates
       ELSE IF r = "errorMessage"
       THEN Raise("ExceptionDuringLambdaExecution") /\ UNCHANGED <<candidates, output>>
       ELSE IF r = "payload_error"
       THEN Raise("FailedToRetrieveListOfMatchesWithIDs") /\ UNCHANGED <<candidates, output>>
       ELSE IF Len(results) = 0
       THEN Raise("IndexError") /\ UNCHANGED <<candidates, output>>
       ELSE /\ candidates' = results
            /\ pc' = "confirm_prompt"
            /\ output' = <<"is_this_the_artist", results[1].artist_name>>
            /\ UNCHANGED error
    /\ response' = r
    /\ UNCHANGED <<CACHED_ARTIST_LIST, IS_CACHE_EMPTY, caller, artist, choice,
                   user_input, table, fetched, invoked, interrupted>>

\* get_valid_user_input: the lowered line is accepted iff it is a valid choice
get_valid_user_input(in, valid_choices) == Lower(in) \in valid_choices

\* fetch_artist_id lines 179-201: the answer to "is X the artist you were
\* looking for?"
ConfirmPrompt(in) ==
    /\ pc = "confirm_prompt"
    /\ user_input' = in
    /\ LET answer == Lower(in)
           first_artist_guess == candidates[1]
       IN  IF ~get_valid_user_input(in, yes_choices \cup no_choices)
           THEN /\ output' = <<"invalid_selection">>
                /\ UNCHANGED <<CACHED_ARTIST_LIST, IS_CACHE_EMPTY, fetched, pc,
                               caller, candidates, artist, error>>
           ELSE IF answer \in yes_choices
           THEN /\ AddResult(first_artist_guess)
                /\ candidates' = <<>>
           ELSE /\ pc' = "select_prompt"
                /\ output' = <<"candidates">>
                                \o [i \in DOMAIN candidates |-> candidates[i].artist_name]
                /\ UNCHANGED <<CACHED_ARTIST_LIST, IS_CACHE_EMPTY, fetched,
                               caller, candidates, artist, error>>
    /\ response' = "none"
    /\ UNCHANGED <<choice, table, invoked, interrupted>>

\* SelectLoop with enumerate counting from 0 in line 212
RECURSIVE SelectLoop_ZeroBased(_, _, _)
SelectLoop_ZeroBased(user_choice, results, option_index) ==
    IF option_index > Len(results) THEN [kind |-> "return", value |-> NoArtist]
    ELSE IF ParseInt(user_choice) = ValueError
    THEN [kind |-> "raise", value |-> NoArtist]
    ELSE IF ParseInt(user_choice) = option_index - 1
    THEN [kind |-> "return", value |-> results[option_index]]
    ELSE IF user_choice \in go_back_choices
    THEN [kind |-> "return", value |-> NoArtist]
    ELSE SelectLoop_ZeroBased(user_choice, results, option_index + 1)

\* fetch_artist_id lines 212-218: the loop that maps the accepted choice to
\* the value returned: an artist, None (NoArtist), or an exception
RECURSIVE SelectLoop(_, _, _)
SelectLoop(user_choice, results, option_index) ==
    IF option_index > Len(results) THEN [kind |-> "return", value |-> NoArtist]
    ELSE IF ParseInt(user_choice) = ValueError
    THEN [kind |-> "raise", value |-> NoArtist]
    ELSE IF ParseInt(user_choice) = option_index
    THEN [kind |-> "return", value |-> results[option_index]]
    ELSE IF user_choice \in go_back_choices
    THEN [kind |-> "return", value |-> NoArtist]
    ELSE SelectLoop(user_choice, results, option_index + 1)

\* fetch_artist_id lines 204-218: the answer to "which artist were you
\* looking for?"
SelectPrompt(in) ==
    /\ pc = "select_prompt"
    /\ user_input' = in
    /\ LET user_choice == Lower(in)
           valid_choices == {Str(k) : k \in 1..Len(candidates)} \cup go_back_choices
           r == SelectLoop(user_choice, candidates, 1)
       IN  IF ~get_valid_user_input(in, valid_choices)
           THEN /\ output' = <<"invalid_selection">>
                /\ UNCHANGED <<CACHED_ARTIST_LIST, IS_CACHE_EMPTY, fetched, pc,
                               caller, candidates, artist, error>>
           ELSE IF r.kind = "raise"
           THEN /\ Raise("ValueError")
                /\ output' = <<>>
                /\ UNCHANGED <<CACHED_ARTIST_LIST, IS_CACHE_EMPTY, fetched,
                               caller, candidates, artist>>
           ELSE /\ AddResult(r.value)
                /\ candidates' = <<>>
    /\ response' = "none"
    /\ UNCHANGED <<choice, table, invoked, interrupted>>

\* AddResponse with the append of line 284 moved before the status check
AddResponse_AppendsBeforeCheck(r) ==
    /\ pc = "add_invoke"
    /\ IF r \in TransportErrors
       THEN /\ Raise(r)
            /\ output' = <<"error">>
            /\ UNCHANGED <<CACHED_ARTIST_LIST, table>>
       ELSE IF r = "errorMessage"
       THEN /\ Raise("KeyError")
            /\ output' = <<>>
            /\ UNCHANGED <<CACHED_ARTIST_LIST, table>>
       ELSE IF r # "200"
       THEN /\ CACHED_ARTIST_LIST' = Append(CACHED_ARTIST_LIST, artist)
            /\ output' = <<"something_went_wrong">>
            /\ menu_loop_prompt(TRUE, "main_menu")
            /\ UNCHANGED <<table, error>>
       ELSE /\ CACHED_ARTIST_LIST' = Append(CACHED_ARTIST_LIST, artist)
            /\ table' = AddArtistsHandler(table, json_loads(json_dumps(artist)))
            /\ output' = <<"now_monitoring">>
            /\ menu_loop_prompt(TRUE, "main_menu")
            /\ UNCHANGED error
    /\ response' = r
    /\ UNCHANGED <<IS_CACHE_EMPTY, caller, candidates, artist, choice, user_input,
                   fetched, invoked, interrupted>>

\* AddResponse with insert(0, artist) in place of append(artist) at line 284
AddResponse_InsertsFirst(r) ==
    /\ pc = "add_invoke"
    /\ IF r \in TransportErrors
       THEN /\ Raise(r)
            /\ output' = <<"error">>
            /\ UNCHANGED <<CACHED_ARTIST_LIST, table>>
       ELSE IF r = "errorMessage"
       THEN /\ Raise("KeyError")
            /\ output' = <<>>
            /\ UNCHANGED <<CACHED_ARTIST_LIST, table>>
       ELSE IF r # "200"
       THEN /\ output' = <<"something_went_wrong">>
            /\ menu_loop_prompt(TRUE, "main_menu")
            /\ UNCHANGED <<CACHED_ARTIST_LIST, table, error>>
       ELSE /\ CACHED_ARTIST_LIST' = <<artist>> \o CACHED_ARTIST_LIST
            /\ table' = AddArtistsHandler(table, json_loads(json_dumps(artist)))
            /\ output' = <<"now_monitoring">>
            /\ menu_loop_prompt(TRUE, "main_menu")
            /\ UNCHANGED error
    /\ response' = r
    /\ UNCHANGED <<IS_CACHE_EMPTY, caller, candidates, artist, choice, user_input,
                   fetched, invoked, interrupted>>

\* AddResponse that invokes AddArtistsHandler again after a failed status
AddResponse_RetriesOnFailure(r) ==
    /\ pc = "add_invoke"
    /\ IF r \in TransportErrors
       THEN /\ Raise(r)
            /\ output' = <<"error">>
            /\ UNCHANGED <<CACHED_ARTIST_LIST, table>>
       ELSE IF r = "errorMessage"
       THEN /\ Raise("KeyError")
            /\ output' = <<>>
            /\ UNCHANGED <<CACHED_ARTIST_LIST, table>>
       ELSE IF r # "200"
       THEN /\ output' = <<"something_went_wrong">>
            /\ pc' = "add_invoke"
            /\ UNCHANGED <<CACHED_ARTIST_LIST, table, error>>
       ELSE /\ CACHED_ARTIST_LIST' = Append(CACHED_ARTIST_LIST, artist)
            /\ table' = AddArtistsHandler(table, json_loads(json_dumps(artist)))
            /\ output' = <<"now_monitoring">>
            /\ menu_loop_prompt(TRUE, "main_menu")
            /\ UNCHANGED error
    /\ response' = r
    /\ UNCHANGED <<IS_CACHE_EMPTY, caller, candidates, artist, choice, user_input,
                   fetched, invoked, interrupted>>

\* add_artist lines 266-289: the response of AddArtistsHandler arrives
AddResponse(r) ==
    /\ pc = "add_invoke"
    /\ IF r \in TransportErrors
       THEN /\ Raise(r)
            /\ output' = <<"error">>
            /\ UNCHANGED <<CACHED_ARTIST_LIST, table>>
       ELSE IF r = "errorMessage"
       THEN /\ Raise("KeyError")
            /\ output' = <<>>
            /\ UNCHANGED <<CACHED_ARTIST_LIST, table>>
       ELSE IF r # "200"
       THEN /\ output' = <<"something_went_wrong">>
            /\ menu_loop_prompt(TRUE, "main_menu")
            /\ UNCHANGED <<CACHED_ARTIST_LIST, table, error>>
       ELSE /\ CACHED_ARTIST_LIST' = Append(CACHED_ARTIST_LIST, artist)
            /\ table' = AddArtistsHandler(table, json_loads(json_dumps(artist)))
            /\ output' = <<"now_monitoring">>
            /\ menu_loop_prompt(TRUE, "main_menu")
            /\ UNCHANGED error
    /\ response' = r
    /\ UNCHANGED <<IS_CACHE_EMPTY, caller, candidates, artist, choice, user_input,
                   fetched, invoked, interrupted>>

\* RemovePrompt with the range of line 304 one too long
RemovePrompt_RangeOffByOne(in) ==
    /\ pc = "remove_prompt"
    /\ user_input' = in
    /\ IF ParseInt(in) # ValueError /\ ParseInt(in) \in 1..(Len(CACHED_ARTIST_LIST) + 1)
       THEN /\ choice' = ParseInt(in)
            /\ pc' = "remove_invoke"
            /\ output' = <<>>
       ELSE /\ output' = <<"invalid_selection">>
            /\ UNCHANGED <<choice, pc>>
    /\ response' = "none"
    /\ UNCHANGED <<CACHED_ARTIST_LIST, IS_CACHE_EMPTY, caller, candidates, artist,
                   error, table, fetched, invoked, interrupted>>

\* RemovePrompt that leaves the loop when there is nothing to remove
RemovePrompt_ReturnsWhenEmpty(in) ==
    /\ pc = "remove_prompt"
    /\ user_input' = in
    /\ IF Len(CACHED_ARTIST_LIST) = 0
       THEN /\ output' = <<"no_artists">>
            /\ menu_loop_prompt(TRUE, "main_menu")
            /\ UNCHANGED choice
       ELSE IF ParseInt(in) # ValueError /\ ParseInt(in) \in 1..Len(CACHED_ARTIST_LIST)
       THEN /\ choice' = ParseInt(in)
            /\ pc' = "remove_invoke"
            /\ output' = <<>>
       ELSE /\ output' = <<"invalid_selection">>
            /\ UNCHANGED <<choice, pc>>
    /\ response' = "none"
    /\ UNCHANGED <<CACHED_ARTIST_LIST, IS_CACHE_EMPTY, caller, candidates, artist,
                   error, table, fetched, invoked, interrupted>>

\* remove_artist lines 301-324: one line of the selection loop; a valid
\* selection invokes RemoveArtistsHandler
RemovePrompt(in) ==
    /\ pc = "remove_prompt"
    /\ user_input' = in
    /\ IF ParseInt(in) # ValueError /\ ParseInt(in) \in 1..Len(CACHED_ARTIST_LIST)
       THEN /\ choice' = ParseInt(in)
            /\ pc' = "remove_invoke"
            /\ output' = <<>>
       ELSE /\ output' = <<"invalid_selection">>
            /\ UNCHANGED <<choice, pc>>
    /\ response' = "none"
    /\ UNCHANGED <<CACHED_ARTIST_LIST, IS_CACHE_EMPTY, caller, candidates, artist,
                   error, table, fetched, invoked, interrupted>>

\* RemoveResponse with pop() in place of pop(choice - 1) at line 343
RemoveResponse_PopsLast(r) ==
    /\ pc = "remove_invoke"
    /\ IF r \in TransportErrors
       THEN /\ Raise(r)
            /\ output' = <<"error">>
            /\ UNCHANGED <<CACHED_ARTIST_LIST, table, choice>>
       ELSE IF r = "errorMessage"
       THEN /\ Raise("KeyError")
            /\ output' = <<>>
            /\ UNCHANGED <<CACHED_ARTIST_LIST, table, choice>>
       ELSE IF r # "200"
       THEN /\ output' = <<"something_went_wrong">>
            /\ menu_loop_prompt(TRUE, "main_menu")
            /\ choice' = 0
            /\ UNCHANGED <<CACHED_ARTIST_LIST, table, error>>
       ELSE /\ CACHED_ARTIST_LIST' = Pop(CACHED_ARTIST_LIST, Len(CACHED_ARTIST_LIST))
            /\ table' = RemoveArtistsHandler(table,
                                json_loads(json_dumps(CACHED_ARTIST_LIST[choice])))
            /\ output' = <<"removed">>
            /\ menu_loop_prompt(TRUE, "main_menu")
            /\ choice' = 0
            /\ UNCHANGED error
    /\ response' = r
    /\ UNCHANGED <<IS_CACHE_EMPTY, caller, candidates, artist, user_input, fetched,
                   invoked, interrupted>>

\* RemoveResponse with the pop of line 343 done before the invocation
RemoveResponse_PopsBeforeCall(r) ==
    /\ pc = "remove_invoke"
    /\ CACHED_ARTIST_LIST' = Pop(CACHED_ARTIST_LIST, choice)
    /\ IF r \in TransportErrors
       THEN /\ Raise(r)
            /\ output' = <<"error">>
            /\ UNCHANGED <<table, choice>>
       ELSE IF r = "errorMessage"
       THEN /\ Raise("KeyError")
            /\ output' = <<>>
            /\ UNCHANGED <<table, choice>>
       ELSE IF r # "200"
       THEN /\ output' = <<"something_went_wrong">>
            /\ menu_loop_prompt(TRUE, "main_menu")
            /\ choice' = 0
            /\ UNCHANGED <<table, error>>
       ELSE /\ table' = RemoveArtistsHandler(table,
                                json_loads(json_dumps(CACHED_ARTIST_LIST[choice])))
            /\ output' = <<"removed">>
            /\ menu_loop_prompt(TRUE, "main_menu")
            /\ choice' = 0
            /\ UNCHANGED error
    /\ response' = r
    /\ UNCHANGED <<IS_CACHE_EMPTY, caller, candidates, artist, user_input, fetched,
                   invoked, interrupted>>

\* remove_artist lines 325-345: the response of RemoveArtistsHandler arrives
RemoveResponse(r) ==
    /\ pc = "remove_invoke"
    /\ IF r \in TransportErrors
       THEN /\ Raise(r)
            /\ output' = <<"error">>
            /\ UNCHANGED <<CACHED_ARTIST_LIST, table, choice>>
       ELSE IF r = "errorMessage"
       THEN /\ Raise("KeyError")
            /\ output' = <<>>
            /\ UNCHANGED <<CACHED_ARTIST_LIST, table, choice>>
       ELSE IF r # "200"
       THEN /\ output' = <<"something_went_wrong">>
            /\ menu_loop_prompt(TRUE, "main_menu")
            /\ choice' = 0
            /\ UNCHANGED <<CACHED_ARTIST_LIST, table, error>>
       ELSE /\ CACHED_ARTIST_LIST' = Pop(CACHED_ARTIST_LIST, choice)
            /\ table' = RemoveArtistsHandler(table,
                                json_loads(json_dumps(CACHED_ARTIST_LIST[choice])))
            /\ output' = <<"removed">>
            /\ menu_loop_prompt(TRUE, "main_menu")
            /\ choice' = 0
            /\ UNCHANGED error
    /\ response' = r
    /\ UNCHANGED <<IS_CACHE_EMPTY, caller, candidates, artist, user_input, fetched,
                   invoked, interrupted>>

\* ContinuePrompt that empties the cache on the way back to the menu
ContinuePrompt_DropsCache(in) ==
    /\ pc = "continue_prompt"
    /\ user_input' = in
    /\ IF Lower(in) = "q"
       THEN /\ quit
            /\ UNCHANGED <<CACHED_ARTIST_LIST, IS_CACHE_EMPTY>>
       ELSE /\ pc' = "main_menu"
            /\ output' = <<"title">>
            /\ CACHED_ARTIST_LIST' = <<>>
            /\ IS_CACHE_EMPTY' = FALSE
    /\ caller' = "none"
    /\ artist' = NoArtist
    /\ response' = "none"
    /\ invoked' = <<>>
    /\ UNCHANGED <<candidates, choice, error, table, fetched, interrupted>>

\* menu_loop_prompt lines 363-365: ENTER goes back to the menu, q quits
ContinuePrompt(in) ==
    /\ pc = "continue_prompt"
    /\ user_input' = in
    /\ IF Lower(in) = "q"
       THEN quit
       ELSE /\ pc' = "main_menu"
            /\ output' = <<"title">>
    /\ caller' = "none"
    /\ artist' = NoArtist
    /\ response' = "none"
    /\ invoked' = <<>>
    /\ UNCHANGED <<CACHED_ARTIST_LIST, IS_CACHE_EMPTY, candidates, choice,
                   error, table, fetched, interrupted>>

\* KeyboardInterrupt without the except clause of lines 99-100
KeyboardInterrupt_Uncaught ==
    /\ pc \notin {"exited", "crashed"}
    /\ Raise("KeyboardInterrupt")
    /\ output' = <<>>
    /\ interrupted' = TRUE
    /\ response' = "none"
    /\ UNCHANGED <<CACHED_ARTIST_LIST, IS_CACHE_EMPTY, caller, candidates, artist,
                   choice, user_input, table, fetched, invoked>>

\* main lines 99-100: an interrupt while the process waits is caught and
\* routed to quit
KeyboardInterrupt ==
    /\ pc \notin {"exited", "crashed"}
    /\ quit
    /\ interrupted' = TRUE
    /\ response' = "none"
    /\ UNCHANGED <<CACHED_ARTIST_LIST, IS_CACHE_EMPTY, caller, candidates, artist,
                   choice, user_input, error, table, fetched, invoked>>

Next ==
    \/ \E in \in MenuInputs : main_menu(in)
    \/ /\ pc = "list_invoke"
       /\ \E r \in ListOutcomes : \E order \in ScanOrders(table) :
            \E names \in NameOrders(table) : ListResponse(r, order, names)
    \/ \E in \in ArtistQueries : AddQuery(in)
    \/ /\ pc = "search_invoke"
       /\ \E r \in SearchOutcomes : \E results \in CandidateLists :
            SearchResponse(r, results)
    \/ \E in \in ConfirmInputs : ConfirmPrompt(in)
    \/ \E in \in SelectInputs : SelectPrompt(in)
    \/ \E r \in WriteOutcomes : AddResponse(r)
    \/ \E in \in RemoveInputs : RemovePrompt(in)
    \/ \E r \in WriteOutcomes : RemoveResponse(r)
    \/ \E in \in ContinueInputs : ContinuePrompt(in)
    \/ KeyboardInterrupt

Spec == Init /\ [][Next]_vars

TypeOK ==
    /\ CACHED_ARTIST_LIST \in SeqsUpTo(Artist, MaxCache)
    /\ IS_CACHE_EMPTY \in BOOLEAN
    /\ pc \in {"main_menu", "list_invoke", "add_query", "search_invoke",
               "confirm_prompt", "select_prompt", "add_invoke", "remove_prompt",
               "remove_invoke", "continue_prompt", "exited", "crashed"}
    /\ caller \in {"none", "list", "add", "remove"}
    /\ candidates \in CandidateLists
    /\ artist \in Artist \cup {NoArtist}
    /\ choice \in 0..MaxCache
    /\ user_input \in MenuInputs \cup ConfirmInputs \cup SelectInputs \cup RemoveInputs
                      \cup ArtistQueries \cup ContinueInputs
    /\ table \in Tables
    /\ fetched \in BOOLEAN
    /\ interrupted \in BOOLEAN
    /\ Len(invoked) <= 1
    /\ response \in {"none", "204", "200", "500"} \cup ListOutcomes \cup WriteOutcomes

\* ================================================================ claims
\* a step in which fetch_artist_id returned a confirmed artist to add_artist
Confirms == pc \in {"confirm_prompt", "select_prompt"} /\ artist' # NoArtist

\* C1: no two entries of the artist cache share the same artist id.
C1_NoDuplicateIds == DistinctIds(CACHED_ARTIST_LIST)

\* C2: when add_artist confirms an artist whose id is already in the cache,
\* no AddArtistsHandler call is issued and the cache is left unchanged.
C2_CachedIdNoAddCall ==
    [][(Confirms /\ artist'.artist_id \in IdsOf(CACHED_ARTIST_LIST))
        => (pc' # "add_invoke" /\ UNCHANGED cacheVars)]_vars

\* C3: when add_artist confirms an artist that is already in the cache, it
\* reports "already monitoring" and stops: no further search query is asked
\* for and control passes to the continue-or-quit prompt.
C3_AlreadyMonitoringStops ==
    [][(Confirms /\ artist' \in Range(CACHED_ARTIST_LIST))
        => ("already_monitoring" \in Range(output') /\ pc' = "continue_prompt")]_vars

\* C4: an AddArtistsHandler response with a status code other than 200
\* leaves the cache (contents and order) and the empty flag as they were.
C4_FailedAddKeepsCache ==
    [][(pc = "add_invoke" /\ response' \notin {"none", "200"} \cup TransportErrors)
        => UNCHANGED cacheVars]_vars

C4_Witness ==
    /\ pc = "continue_prompt"
    /\ caller = "add"
    /\ response = "500"
    /\ Len(CACHED_ARTIST_LIST) > 0
    /\ artist \notin Range(CACHED_ARTIST_LIST)

\* C5: in remove_artist every line that is not an integer in
\* [1, len(cache)] leaves the cache unchanged, issues no remove call and
\* leads to the same prompt again.
C5_InvalidRemoveReprompts ==
    [][(pc = "remove_prompt" /\ pc' # "exited"
        /\ ParseInt(user_input') \notin 1..Len(CACHED_ARTIST_LIST))
        => (UNCHANGED cacheVars /\ pc' = "remove_prompt"
            /\ output' = <<"invalid_selection">>)]_vars

C5_Witness ==
    /\ pc = "remove_prompt"
    /\ Len(CACHED_ARTIST_LIST) = 2
    /\ user_input = "3"
    /\ output = <<"invalid_selection">>

\* C6: every accepted input at the prompts of fetch_artist_id leads to a
\* re-prompt, to the selection prompt, to a confirmed artist or to the
\* abandon signal, never to an unhandled error.
C6_FlowEndsInArtistOrAbandon ==
    [][(pc \in {"confirm_prompt", "select_prompt"}) => pc' # "crashed"]_vars

\* C7: a go-back word at the selection prompt makes fetch_artist_id return
\* the abandon signal: add_artist restarts its loop and asks for a new
\* search query, with no add call issued and the cache unchanged.
C7_GoBackRestartsSearch ==
    [][(pc = "select_prompt" /\ pc' # "exited"
        /\ Lower(user_input') \in go_back_choices)
        => (pc' \in {"add_query", "list_invoke"} /\ UNCHANGED cacheVars)]_vars

\* C8: a successful search response with an empty candidate list ends the
\* flow with no result and without raising an error (the lookup of the first
\* candidate is the only place that can raise IndexError).
C8_EmptySearchNoError == error # "IndexError"

\* C9: a 204 response to the first fetch makes the cache the empty sequence
\* with the flag set and shows "no artists"; while the flag is set it stays
\* set and no list_artists issues a FetchArtistsHandler call.
C9_EmptyFetchIsCached ==
    [][/\ (pc = "list_invoke" /\ response' = "204")
            => (CACHED_ARTIST_LIST' = <<>> /\ IS_CACHE_EMPTY'
                /\ output' = <<"no_artists">>)
       /\ IS_CACHE_EMPTY => (IS_CACHE_EMPTY' /\ pc' # "list_invoke")]_vars

C9_Witness ==
    /\ pc = "continue_prompt"
    /\ caller = "list"
    /\ IS_CACHE_EMPTY
    /\ CACHED_ARTIST_LIST = <<>>
    /\ response = "none"
    /\ output = <<"no_artists">>

\* C10: once the watch-list has been fetched, no later list_artists issues
\* a FetchArtistsHandler call.
C10_NoRefetchAfterFetch ==
    [][fetched => pc' # "list_invoke"]_vars

\* C11: in remove_artist the cache changes only when RemoveArtistsHandler
\* returned 200, and then exactly the entry at the selected 1-based position
\* goes; any other status leaves the cache as it was and shows an error.
C11_RemoveOnlyAfterSuccess ==
    [][/\ (pc = "remove_invoke" /\ response' = "200")
            => /\ Len(CACHED_ARTIST_LIST') = Len(CACHED_ARTIST_LIST) - 1
               /\ \A k \in DOMAIN CACHED_ARTIST_LIST' :
                    CACHED_ARTIST_LIST'[k] =
                        CACHED_ARTIST_LIST[IF k < ParseInt(user_input) THEN k ELSE k + 1]
       /\ (pc = "remove_invoke" /\ response' # "200")
            => UNCHANGED CACHED_ARTIST_LIST
       /\ (pc = "remove_invoke" /\ response' = "500")
            => output' = <<"something_went_wrong">>
       /\ (pc \in {"remove_prompt", "remove_invoke"}
           /\ CACHED_ARTIST_LIST' # CACHED_ARTIST_LIST)
            => (pc = "remove_invoke" /\ response' = "200")]_vars

C11_Witness ==
    /\ pc = "continue_prompt"
    /\ caller = "remove"
    /\ response = "200"
    /\ output = <<"removed">>
    /\ user_input = "1"
    /\ Len(CACHED_ARTIST_LIST) = 1

\* C12: after every completed operation that follows a successful fetch,
\* the artist ids in the cache are the artist ids stored in the backend
\* table (this session being the table's only writer).
C12_CacheMirrorsBackend ==
    (fetched /\ pc \in {"main_menu", "continue_prompt"})
        => IdsOf(CACHED_ARTIST_LIST) = {a.artist_id : a \in table}

\* the failures a Lambda invocation can report: transport errors, an
\* execution error of the Lambda, an error field in the payload
RemoteErrors == TransportErrors \cup {"errorMessage", "payload_error"}

\* C13: no transport error and no application error of a remote call ends
\* the process: the operation shows a message and control returns to the
\* menu.
C13_RemoteErrorsReturnToMenu ==
    [][response' \in RemoteErrors
        => (pc' \in {"continue_prompt", "main_menu"} /\ output' # <<>>)]_vars

\* C14: a transport error or an application error reported for a remote
\* call (list, search, add, remove) leaves the cache and the empty flag as
\* they were before the call.
C14_RemoteErrorsKeepCache ==
    [][response' \in RemoteErrors \cup {"500"} => UNCHANGED cacheVars]_vars

C14_Witness ==
    /\ caller = "remove"
    /\ pc = "crashed"
    /\ response \in RemoteErrors
    /\ Len(CACHED_ARTIST_LIST) = 2

\* C15: an interrupt while the menu or an operation waits takes the quit
\* path of the Quit entry: quit prints its message, the process ends, and
\* nothing runs afterwards.
C15_InterruptQuits ==
    [][/\ (interrupted' /\ ~interrupted)
            => (pc' = "exited" /\ output' = <<"quitting">> /\ error' = "none")
       /\ (pc = "main_menu" /\ user_input' = "4" /\ ~interrupted')
            => (pc' = "exited" /\ output' = <<"quitting">> /\ error' = "none")
       /\ pc # "exited"]_vars

C15_Witness ==
    /\ interrupted
    /\ pc = "exited"
    /\ caller = "add"
    /\ Len(candidates) > 0
    /\ output = <<"quitting">>

\* C16: the session ends only through the Quit menu entry or an interrupt:
\* no other input and no outcome of a remote call ends the process.
C16_ExitOnlyByQuitOrInterrupt ==
    [][(pc' \in {"exited", "crashed"})
        => ((pc = "main_menu" /\ user_input' = "4") \/ interrupted')]_vars

\* a step in which list_artists printed its listing for operation c
Listed(c) ==
    /\ caller' = c
    /\ \E i \in DOMAIN output' : output'[i] \in {"listing", "no_artists"}

\* a step in which an operation called with continue_prompt=True completes:
\* list_artists printed its listing, or add_artist or remove_artist got the
\* status code of its write
CompletesSet ==
    \/ Listed("list")
    \/ pc \in {"add_invoke", "remove_invoke"} /\ response' \in {"200", "500"}

\* a step in which list_artists, called inside add_artist or remove_artist
\* with continue_prompt left False, completes
CompletesClear == Listed("add") \/ Listed("remove")

\* C17 as stated: an operation called with continuePrompt set returns to
\* the menu controller after it completes; called with continuePrompt
\* clear, the process exits after the operation.
C17_ClearFlagExits ==
    [][/\ CompletesSet => pc' = "continue_prompt"
       /\ CompletesClear => pc' = "exited"]_vars

\* C17 amended: an operation called with continue_prompt set ends, when it
\* completes, at the continue prompt, where q quits and any other line goes
\* back to the menu; called with continue_prompt clear it returns to its
\* caller, which goes on, and the process does not exit.
C17_ClearFlagReturnsToCaller ==
    [][/\ CompletesSet => pc' = "continue_prompt"
       /\ (pc = "continue_prompt" /\ ~interrupted')
            => pc' = (IF Lower(user_input') = "q" THEN "exited" ELSE "main_menu")
       /\ CompletesClear => (pc' = AfterList(caller') /\ error' = "none")]_vars

C17_Witness ==
    /\ pc = "remove_prompt"
    /\ caller = "remove"
    /\ response = "200"
    /\ output = <<"listing">> \o NamesOf(CACHED_ARTIST_LIST)

\* the prompts that take a choice, and whether line in is in the allow-list
\* of the prompt the process waits at
ChoicePrompts ==
    {"main_menu", "confirm_prompt", "select_prompt", "remove_prompt", "continue_prompt"}
InAllowList(in) ==
    CASE pc = "main_menu" -> InputValidate(in, Range(MenuKeys))
      [] pc = "confirm_prompt" -> get_valid_user_input(in, yes_choices \cup no_choices)
      [] pc = "select_prompt" ->
            get_valid_user_input(in, {Str(k) : k \in 1..Len(candidates)}
                                         \cup go_back_choices)
      [] pc = "remove_prompt" -> ParseInt(in) \in 1..Len(CACHED_ARTIST_LIST)
      [] pc = "continue_prompt" -> Lower(in) \in {"", "q"}
      [] OTHER -> TRUE

\* C18: at every prompt that takes a choice, an input outside the prompt's
\* allow-list is not acted on: the same prompt is shown again, no session
\* state changes and no error is raised.
C18_InvalidInputReprompts ==
    [][(pc \in ChoicePrompts /\ ~interrupted' /\ ~InAllowList(user_input'))
        => /\ pc' = pc
           /\ error' = "none"
           /\ UNCHANGED <<CACHED_ARTIST_LIST, IS_CACHE_EMPTY, caller, candidates,
                          artist, choice, table, fetched>>]_vars

\* C19: for a validated menu selection main makes exactly one call, of the
\* function the registry binds to the selection, with the access token iff
\* the entry needs one, and that operation is the one that runs; when the
\* operation returns, the menu awaits the next selection.
C19_OneBoundOperation ==
    [][/\ (pc = "main_menu" /\ ~interrupted'
            /\ InputValidate(user_input', Range(MenuKeys)))
            => LET entry == menu_choices[user_input'] IN
               /\ Len(invoked') = 1
               /\ invoked'[1].function = entry.function
               /\ invoked'[1].token = entry.token_needed
               /\ invoked'[1].continue_prompt = entry.continue_prompt
               /\ IF entry.function = "quit" THEN pc' = "exited"
                  ELSE caller' = OperationOf(entry.function)
       /\ (pc = "continue_prompt" /\ pc' \notin {"exited", "crashed"})
            => (pc' = "main_menu" /\ invoked' = <<>> /\ caller' = "none")
       /\ (pc # "main_menu") => (invoked' = invoked \/ invoked' = <<>>)]_vars

C19_Witness ==
    /\ pc = "list_invoke"
    /\ caller = "add"
    /\ user_input = "2"
    /\ invoked = <<[function |-> "add_artist", token |-> TRUE,
                    continue_prompt |-> TRUE]>>

\* C20: the candidate offered for confirmation is the first of the search
\* response; yes returns it; after no the candidates are listed in the
\* order of the response and the number k returns the k-th of them.
C20_CandidateOrderKept ==
    [][/\ (pc = "search_invoke" /\ pc' = "confirm_prompt")
            => output' = <<"is_this_the_artist", candidates'[1].artist_name>>
       /\ (pc = "confirm_prompt" /\ ~interrupted' /\ Lower(user_input') \in yes_choices)
            => artist' = candidates[1]
       /\ (pc = "confirm_prompt" /\ ~interrupted' /\ Lower(user_input') \in no_choices)
            => /\ pc' = "select_prompt"
               /\ candidates' = candidates
               /\ output' = <<"candidates">>
                            \o [i \in DOMAIN candidates |-> candidates[i].artist_name]
       /\ \A k \in 1..Len(candidates) :
            (pc = "select_prompt" /\ ~interrupted' /\ Lower(user_input') = Str(k))
                => artist' = candidates[k]]_vars

C20_Witness ==
    /\ pc = "add_invoke"
    /\ user_input = "2"
    /\ artist # NoArtist
    /\ output = <<>>

\* C21: fetch_artist_id hands an artist to add_artist only in a step that
\* reads a yes answer at the confirmation prompt or the number of a listed
\* candidate at the selection prompt; a search response alone, also one
\* with a single candidate, returns nothing and asks for confirmation.
C21_NoUnconfirmedArtist ==
    [][/\ (artist' # NoArtist /\ artist' # artist)
            => \/ /\ pc = "confirm_prompt"
                  /\ Lower(user_input') \in yes_choices
               \/ /\ pc = "select_prompt"
                  /\ \E k \in 1..Len(candidates) : Lower(user_input') = Str(k)
       /\ (pc = "search_invoke" /\ response' = "ok" /\ pc' # "crashed")
            => (pc' = "confirm_prompt" /\ artist' = NoArtist)
       /\ (pc' = "add_invoke" /\ pc # "add_invoke")
            => (artist' # NoArtist /\ pc \in {"confirm_prompt", "select_prompt"})]_vars

C21_Witness ==
    /\ pc = "select_prompt"
    /\ Len(candidates) = 1
    /\ user_input = "no"
    /\ artist = NoArtist

\* the states in which a Lambda invocation is in flight
InFlight == {"list_invoke", "search_invoke", "add_invoke", "remove_invoke"}
\* the states in which the process is over
Ended == {"exited", "crashed"}

\* C22: every remote call is one invocation: a search call is issued only
\* by reading a query, an add call only by reading a confirmation, a remove
\* call only by reading a selection; the step that receives a response,
\* failed or not, issues no call, and the response to an add or a remove
\* ends the operation.
C22_OneCallNoRetry ==
    [][/\ pc \in InFlight => pc' \notin InFlight
       /\ pc' = "search_invoke" => pc = "add_query"
       /\ pc' = "add_invoke" => pc \in {"confirm_prompt", "select_prompt"}
       /\ pc' = "remove_invoke" => pc = "remove_prompt"
       /\ pc = "search_invoke" => pc' \in {"confirm_prompt"} \cup Ended
       /\ pc \in {"add_invoke", "remove_invoke"}
            => pc' \in {"continue_prompt"} \cup Ended]_vars

C22_Witness ==
    /\ pc = "continue_prompt"
    /\ caller = "remove"
    /\ response = "500"
    /\ choice = 0
    /\ output = <<"something_went_wrong">>

ShownNames(out) ==
    IF \E i \in DOMAIN out : out[i] = "listing"
    THEN SubSeq(out, (CHOOSE i \in DOMAIN out : out[i] = "listing") + 1, Len(out))
    ELSE <<>>

\* C24: a successful add puts the new artist after all entries, a
\* successful remove deletes one entry, both keep the other entries in
\* their order, and a listing served from the cache shows the entries in
\* cache order.
C24_InsertionOrderKept ==
    [][/\ (pc = "add_invoke" /\ response' = "200")
            => /\ Len(CACHED_ARTIST_LIST') = Len(CACHED_ARTIST_LIST) + 1
               /\ SubSeq(CACHED_ARTIST_LIST', 1, Len(CACHED_ARTIST_LIST))
                    = CACHED_ARTIST_LIST
       /\ (pc = "remove_invoke" /\ response' = "200")
            => \E j \in DOMAIN CACHED_ARTIST_LIST :
                /\ SubSeq(CACHED_ARTIST_LIST', 1, j - 1)
                    = SubSeq(CACHED_ARTIST_LIST, 1, j - 1)
                /\ SubSeq(CACHED_ARTIST_LIST', j, Len(CACHED_ARTIST_LIST'))
                    = SubSeq(CACHED_ARTIST_LIST, j + 1, Len(CACHED_ARTIST_LIST))
       /\ (pc # "list_invoke" /\ "listing" \in Range(output'))
            => (ShownNames(output') = NamesOf(CACHED_ARTIST_LIST)
                /\ UNCHANGED CACHED_ARTIST_LIST)]_vars

C24_Witness ==
    /\ pc = "continue_prompt"
    /\ caller = "add"
    /\ response = "200"
    /\ output = <<"now_monitoring">>
    /\ Len(CACHED_ARTIST_LIST) = 2
    /\ CACHED_ARTIST_LIST[2] = artist
    /\ CACHED_ARTIST_LIST[1].artist_id # artist.artist_id

\* C25: the artist remove_artist selects, names in the remove request and
\* takes from the cache on success is the artist its listing showed at the
\* selected position, whether the listing was served from the cache or
\* printed from a fetch response.
C25_RemovesTheArtistShown ==
    [][/\ (pc = "remove_prompt" /\ pc' = "remove_invoke" /\ "listing" \in Range(output))
            => ShownNames(output)[choice'] = CACHED_ARTIST_LIST[choice'].artist_name
       /\ (pc = "remove_invoke" /\ response' = "200")
            => /\ CACHED_ARTIST_LIST' = Pop(CACHED_ARTIST_LIST, choice)
               /\ table' = RemoveArtistsHandler(table, CACHED_ARTIST_LIST[choice])]_vars

\* C26: whenever the flag says the watch-list was fetched and found empty,
\* the cache holds no artist.
C26_FlagAgreesWithCache == IS_CACHE_EMPTY => CACHED_ARTIST_LIST = <<>>

\* C27: with an empty cache every line read by the selection prompt of
\* remove_artist is rejected: the prompt is shown again, no remove call is
\* issued, and only an interrupt leaves the prompt.
C27_EmptyCacheRemoveNeverAccepts ==
    [][(pc = "remove_prompt" /\ CACHED_ARTIST_LIST = <<>>)
        => \/ /\ interrupted'
              /\ pc' = "exited"
           \/ /\ pc' = "remove_prompt"
              /\ output' = <<"invalid_selection">>
              /\ UNCHANGED <<CACHED_ARTIST_LIST, IS_CACHE_EMPTY, table, choice, error>>]_vars

C27_Witness ==
    /\ pc = "remove_prompt"
    /\ caller = "remove"
    /\ CACHED_ARTIST_LIST = <<>>
    /\ user_input = "1"
    /\ output = <<"invalid_selection">>

\* C28: the cache and the flag change only in a step that receives a list
\* response, a 200 from AddArtistsHandler or a 200 from RemoveArtistsHandler;
\* the search and its prompts, a listing served from the cache, the
\* continue prompt and the menu selection leave both as they are.
C28_CacheChangedOnlyByResponses ==
    [][/\ (cacheVars' # cacheVars)
            => \/ pc = "list_invoke" /\ response' \in {"200", "204"}
               \/ pc \in {"add_invoke", "remove_invoke"} /\ response' = "200"
       /\ (pc \in {"main_menu", "add_query", "search_invoke", "confirm_prompt",
                   "select_prompt", "continue_prompt"})
            => UNCHANGED cacheVars]_vars

C28_Witness ==
    /\ pc = "main_menu"
    /\ user_input = ""
    /\ fetched
    /\ Len(CACHED_ARTIST_LIST) = 2
    /\ output = <<"title">>

====
